---- MODULE Spec2Model ----
(***************************************************************************)
(* Soupy: the multi-strategy acquisition and conversion pipeline.          *)
(*                                                                         *)
(*   fetchers.py    WebFetcher.fetch, WebFetcher.html_to_text,             *)
(*                  WebCrawler.fetch, WebCrawler.render_with_playwright    *)
(*   core.py        Result.__init__                                        *)
(*   converters.py  Html2TextConverter, SoupFallbackConverter,             *)
(*                  CompositeMarkdownConverter                             *)
(*   extractors.py  CompositeExtractor                                     *)
(*                                                                         *)
(* A Python str is a sequence of tokens; a token is one character or, in   *)
(* markup handled by regular expressions, one whole tag.  The value None   *)
(* is the record NoneVal.  An exception in flight is a record with the     *)
(* field exc.                                                              *)
(***************************************************************************)
EXTENDS Integers, Sequences, FiniteSets, TLC

(***************************************************************************)
(* Bounds of the model.                                                    *)
(***************************************************************************)
MaxCalls == 3

MaxStrategies == 2

(***************************************************************************)
(* Python values.                                                          *)
(***************************************************************************)
NoneVal == [kind |-> "None"]

IsNone(v) == DOMAIN v = {"kind"}

IsExc(v) == "exc" \in DOMAIN v

Min(S) == CHOOSE m \in S : \A n \in S : m <= n

WS == {" ", "\n", "\t"}

RECURSIVE LStrip(_)
LStrip(s) == IF s # <<>> /\ Head(s) \in WS THEN LStrip(Tail(s)) ELSE s

RECURSIVE RStrip(_)
RStrip(s) ==
    IF s # <<>> /\ s[Len(s)] \in WS THEN RStrip(SubSeq(s, 1, Len(s) - 1)) ELSE s

\* str.strip( )
Strip(s) == RStrip(LStrip(s))

\* bool( value ) of a str
Truthy(s) == s # <<>>

(***************************************************************************)
(* fetchers.py: throw_if raises ValueError when the value is falsy.        *)
(***************************************************************************)
fetchers_throw_if(value) == ~Truthy(value)

(***************************************************************************)
(* core.py: throw_if raises ValueError on None and on an empty or          *)
(* whitespace-only str.  The url of a Result is always a str here.         *)
(***************************************************************************)
core_throw_if(value) == Strip(value) = <<>>

(***************************************************************************)
(* core.py: Result.__init__(url, status_code, text, html=None,             *)
(* headers=None).  kw is the keyword mapping of the call.  Binding the     *)
(* keywords to the signature comes first: an unknown keyword or a missing  *)
(* required one is a TypeError raised before the body runs.  Inside the    *)
(* body a rejected url is a ValueError, shown in an ErrorDialog.           *)
(***************************************************************************)
ResultParams == {"url", "status_code", "text", "html", "headers"}

ResultRequired == {"url", "status_code", "text"}

ResultInit(kw) ==
    IF ~(DOMAIN kw \subseteq ResultParams) \/ ~(ResultRequired \subseteq DOMAIN kw)
    THEN [exc |-> "TypeError", dialog |-> FALSE]
    ELSE IF core_throw_if(kw.url)
    THEN [exc |-> "ValueError", dialog |-> TRUE]
    ELSE [url |-> kw.url,
          status_code |-> kw.status_code,
          text |-> kw.text,
          html |-> IF "html" \in DOMAIN kw THEN kw.html ELSE NoneVal,
          headers |-> IF "headers" \in DOMAIN kw THEN kw.headers ELSE <<>>]

IsResult(v) == "status_code" \in DOMAIN v

(***************************************************************************)
(* fetchers.py: WebFetcher.html_to_text.  The markup is a sequence of      *)
(* tokens (tags and characters).                                           *)
(***************************************************************************)
BlockTags == {"<p>", "</p>", "<div>", "</div>", "<br>", "<li>", "</li>",
              "<h1>", "</h1>", "<h2>", "</h2>"}

OtherTags == {"<script>", "</script>", "<style>", "</style>", "<b>", "</b>"}

\* re.sub( open[\s\S]*?close, " ", html ): leftmost, shortest matches
RECURSIVE SubRange(_, _, _)
SubRange(s, open, close) ==
    LET opens == {i \in 1..Len(s) : s[i] = open} IN
    IF opens = {} THEN s
    ELSE LET i == Min(opens)
             closes == {j \in (i + 1)..Len(s) : s[j] = close} IN
         IF closes = {} THEN s
         ELSE LET j == Min(closes) IN
              SubSeq(s, 1, i - 1) \o <<" ">>
                  \o SubRange(SubSeq(s, j + 1, Len(s)), open, close)

\* re.sub of single tag tokens
SubTags(s, tags, by) == [i \in 1..Len(s) |-> IF s[i] \in tags THEN by ELSE s[i]]

\* re.sub( r"\s+", " ", text )
RECURSIVE SubWs(_)
SubWs(s) ==
    IF s = <<>> THEN <<>>
    ELSE IF Head(s) \in WS
    THEN <<" ">> \o SubWs(LStrip(s))
    ELSE <<Head(s)>> \o SubWs(Tail(s))

html_to_text(html) ==
    IF fetchers_throw_if(html) THEN [exc |-> "ValueError"]
    ELSE LET noScript == SubRange(html, "<script>", "</script>")
             noStyle == SubRange(noScript, "<style>", "</style>")
             lines == SubTags(noStyle, BlockTags, "\n")
             text == SubTags(lines, OtherTags, " ")
         IN  [text |-> Strip(SubWs(text))]

(***************************************************************************)
(* Inputs of the fetch model.                                              *)
(***************************************************************************)
GoodUrl == <<"h", ":", "x">>

FinalUrl == <<"h", ":", "y">>

Urls == {<<>>, <<" ">>, GoodUrl}

Times == {15}

Htmls == {<<>>,
          <<"<p>", "A", "</p>">>,
          <<"<script>", "x", "</script>", "<b>", "B", "</b>">>}

Statuses == {200, 301, 404}

ResponseHeaders == {<<>>}

\* what crawl4ai.fetch_and_render( cfg ) may hand back
Payloads ==
    {[raises |-> TRUE], [value |-> "None"], [value |-> "str"], [value |-> "dict"]}
        \cup {[value |-> "dict", content |-> h] : h \in Htmls}

\* what requests.get( ... ) may do
Responses ==
    {[raises |-> TRUE]}
        \cup {[status_code |-> s, text |-> h, url |-> u, headers |-> hd] :
                 s \in Statuses, h \in Htmls, u \in {FinalUrl}, hd \in ResponseHeaders}

\* what the Playwright session may do
Renders ==
    {[stage |-> g] : g \in {"import", "launch", "goto", "wait", "content"}}
        \cup {[stage |-> "ok", html |-> h] : h \in Htmls \ {<<>>}}

Strategies == <<"crawl4ai", "requests", "playwright">>

(***************************************************************************)
(* dict objects.  The items of a dict are a sequence of [k, v] in          *)
(* insertion order.                                                        *)
(***************************************************************************)
HasKey(items, k) == \E i \in 1..Len(items) : items[i].k = k

\* d[ k ] = v
SetItem(items, k, v) ==
    IF HasKey(items, k)
    THEN [i \in 1..Len(items) |-> IF items[i].k = k THEN [k |-> k, v |-> v]
                                   ELSE items[i]]
    ELSE Append(items, [k |-> k, v |-> v])

(***************************************************************************)
(* fetchers.py: WebFetcher.__init__( headers ).  h is None or a dict; the  *)
(* instance keeps a copy and adds its User-Agent when that exact key is    *)
(* not in the copy.  The outcome holds the headers of the instance and     *)
(* the caller's dict after the call.                                       *)
(***************************************************************************)
Dict(items) == [kind |-> "dict", items |-> items]

Agents == "Mozilla/5.0 ... Chrome/124.0 Safari/537.36"

WebFetcherInit(h) ==
    LET own == IF h = NoneVal THEN <<>> ELSE h.items IN
    [headers |-> IF HasKey(own, "User-Agent") THEN own
                 ELSE SetItem(own, "User-Agent", Agents),
     caller |-> h]

(***************************************************************************)
(* requests.get( headers = ... ): the headers go into a dict whose keys    *)
(* are compared without regard to case; an item set later replaces an      *)
(* earlier one of the same name, and the spelling set last is kept.        *)
(***************************************************************************)
Lower(name) ==
    CASE name = "User-Agent" -> "user-agent"
      [] name = "Accept" -> "accept"
      [] OTHER -> name

RECURSIVE CaseInsensitiveDict(_)
CaseInsensitiveDict(items) ==
    IF items = <<>> THEN <<>>
    ELSE LET last == items[Len(items)]
             before == CaseInsensitiveDict(SubSeq(items, 1, Len(items) - 1))
         IN  IF \E i \in 1..Len(before) : Lower(before[i].k) = Lower(last.k)
             THEN [i \in 1..Len(before) |->
                      IF Lower(before[i].k) = Lower(last.k) THEN last ELSE before[i]]
             ELSE Append(before, last)

\* the headers argument a caller may construct the fetcher with
HeaderMaps ==
    {NoneVal, Dict(<<>>),
     Dict(<<[k |-> "User-Agent", v |-> "MyBot/1.0"]>>),
     Dict(<<[k |-> "user-agent", v |-> "MyBot/1.0"]>>),
     Dict(<<[k |-> "Accept", v |-> "text/html"]>>)}

(***************************************************************************)
(* State of one WebCrawler and of the fetch call in progress.              *)
(***************************************************************************)
VARIABLES
    crawl4ai,        \* module global: TRUE when the import succeeded
    use_playwright,  \* WebCrawler.use_playwright
    result,          \* Fetcher.result
    raw_url,         \* WebFetcher.raw_url
    timeout,         \* Fetcher.timeout
    response,        \* WebFetcher.response
    pc,              \* position in WebCrawler.fetch
    url,             \* argument url of the call
    time,            \* argument time of the call
    show_dialog,     \* argument show_dialog of the call
    attempted,       \* strategies invoked by the call, in order
    reported,        \* strategies that obtained content, with their status
    dialogs,         \* ErrorDialog.show( ) calls made by the call
    launched,        \* browsers launched by the call
    browser,         \* "none", "open", "closed" or "stopped"
    returned,        \* value returned by the last finished call
    raised,          \* exception raised by the last finished call
    calls,           \* calls started
    headers,         \* Fetcher.headers: the items of the instance's dict
    caller_headers,  \* the dict the caller gave to the constructor, as it is now
    supplied,        \* the headers argument as the caller passed it
    wire             \* headers of the request that requests.get sent in the call

fetchVars == <<crawl4ai, use_playwright, result, raw_url, timeout, response, pc, url,
               time, show_dialog, attempted, reported, dialogs, launched, browser,
               returned, raised, calls, headers, caller_headers, supplied, wire>>

(***************************************************************************)
(* State of one CompositeMarkdownConverter, one CompositeExtractor, their  *)
(* strategy objects, and of the convert or extract call in progress.       *)
(***************************************************************************)
VARIABLES
    has_html2text,   \* converters.py global _HAS_HTML2TEXT
    html2text,       \* the html2text library: its Markdown for each markup
    converters,      \* CompositeMarkdownConverter.converters
    errors,          \* CompositeMarkdownConverter.errors
    raw_html,        \* CompositeMarkdownConverter.raw_html
    parsed_text,     \* CompositeMarkdownConverter.parsed_text
    members,         \* fields of the strategy objects in converters
    extractors,      \* CompositeExtractor.extractors
    run_op,          \* the method called: "convert" or "extract"
    run_pc,          \* position in convert or extract
    html,            \* argument html of the call
    idx,             \* position of the loop in the strategy list
    invoked,         \* positions of the strategies invoked by the call
    run_returned,    \* value returned by the last finished call
    run_raised,      \* exception that left the last finished call
    run_shown,       \* the exception put in the runner's ErrorDialog
    run_dialogs,     \* ErrorDialog.show( ) calls made by the call
    run_calls,       \* calls started
    log              \* the (method, argument, value) of the finished calls

runVars == <<has_html2text, html2text, converters, errors, raw_html, parsed_text,
             members, extractors, run_op, run_pc, html, idx, invoked, run_returned,
             run_raised, run_shown, run_dialogs, run_calls, log>>

(***************************************************************************)
(* State of the strategy objects a caller uses on their own: one           *)
(* SoupFallbackConverter of converters.py, one of parsers.py, one          *)
(* HeuristicExtractor, one ReadabilityExtractor, and the last call made.   *)
(***************************************************************************)
VARIABLES
    soup_conv,       \* fields of the converters.py SoupFallbackConverter
    soup_pars,       \* fields of the parsers.py SoupFallbackConverter
    part_op,         \* the method called last
    part_html,       \* its argument html
    part_out,        \* the value it returned
    part_dialogs,    \* ErrorDialog.show( ) calls it made
    part_calls,      \* calls made
    pars_converters, \* parsers.py CompositeMarkdownConverter.converters
    pars_members,    \* the fields of each converter of that chain
    pars_errors,     \* parsers.py CompositeMarkdownConverter.errors
    pars_trace       \* the converters its last call invoked, with their outcomes

compositeVars == <<pars_converters, pars_members, pars_errors, pars_trace>>

partVars == <<soup_conv, soup_pars, part_op, part_html, part_out, part_dialogs,
              part_calls, compositeVars>>

(***************************************************************************)
(* State of a caller that builds Result objects and writes them with a     *)
(* MarkdownWriter.  A dict is an object of the heap: two names may hold    *)
(* the same dict, and a change made through one is seen through the other. *)
(***************************************************************************)
VARIABLES
    heap,            \* the dict objects: heap[ id ] is the items of dict id
    given,           \* the dict the caller passed as headers (0: None)
    res,             \* the Result last constructed; its headers is an id
    born,            \* the fields of res as they were after construction
    exported,        \* the dict last returned by res.to_dict( )
    res_raised,      \* exception that left the last constructor call
    file,            \* content of the file last written
    written,         \* value returned by the last MarkdownWriter.write
    writer,          \* MarkdownWriter.file_path and MarkdownWriter.result
    res_dialogs,     \* ErrorDialog.show( ) calls of the last operation
    res_calls        \* operations made

resultVars == <<heap, given, res, born, exported, res_raised, file, written,
                writer, res_dialogs, res_calls>>

(***************************************************************************)
(* State of one Soupy facade, its Scraper, and the last save_as_markdown   *)
(* call made on it.                                                        *)
(***************************************************************************)
VARIABLES
    scraper,        \* the fields raw_html, parsed_text, file_path of the Scraper
    scr_args,       \* the arguments of the last call and what the world held
    scr_ret,        \* what the last call returned
    scr_raised,     \* the exception that escaped the last call, or None
    scr_stages,     \* the collaborators the last call invoked, in order
    scr_wrote,      \* the file the last call put on disk, or None
    scr_dialogs,    \* ErrorDialogs shown by the last call
    scr_calls       \* calls made so far

pipeVars == <<scraper, scr_args, scr_ret, scr_raised, scr_stages, scr_wrote,
              scr_dialogs, scr_calls>>

vars == <<fetchVars, runVars, partVars, resultVars, pipeVars>>

InitFetch ==
    /\ crawl4ai \in BOOLEAN
    /\ use_playwright \in BOOLEAN
    /\ result = NoneVal
    /\ raw_url = NoneVal
    /\ timeout = 15
    /\ response = NoneVal
    /\ pc = "idle"
    /\ url = <<>>
    /\ time = 15
    /\ show_dialog = TRUE
    /\ attempted = <<>>
    /\ reported = <<>>
    /\ dialogs = 0
    /\ launched = 0
    /\ browser = "none"
    /\ returned = NoneVal
    /\ raised = NoneVal
    /\ calls = 0
    /\ supplied \in HeaderMaps
    /\ headers = WebFetcherInit(supplied).headers
    /\ caller_headers = WebFetcherInit(supplied).caller
    /\ wire = NoneVal

\* the strategies the crawler is configured with, in priority order
Configured ==
    (IF crawl4ai THEN <<"crawl4ai">> ELSE <<>>) \o <<"requests">>
        \o (IF use_playwright THEN <<"playwright">> ELSE <<>>)

Shown(sd) == IF sd THEN 1 ELSE 0

\* the final handler of WebCrawler.fetch: show the dialog, re-raise
FetchRaise(e, d) ==
    /\ raised' = e
    /\ returned' = NoneVal
    /\ dialogs' = d + Shown(show_dialog')
    /\ pc' = "done"

(***************************************************************************)
(* WebCrawler.fetch, entry: the guard on url.                              *)
(***************************************************************************)
FetchCall(u, t, sd) ==
    /\ pc \in {"idle", "done"}
    /\ calls < MaxCalls
    /\ calls' = calls + 1
    /\ url' = u
    /\ time' = t
    /\ show_dialog' = sd
    /\ attempted' = <<>>
    /\ reported' = <<>>
    /\ launched' = 0
    /\ browser' = "none"
    /\ wire' = NoneVal
    /\ IF fetchers_throw_if(u)
       THEN FetchRaise([exc |-> "ValueError"], 0)
       ELSE /\ pc' = IF crawl4ai THEN "crawl4ai" ELSE "requests"
            /\ dialogs' = 0
            /\ returned' = NoneVal
            /\ raised' = NoneVal
    /\ UNCHANGED <<crawl4ai, use_playwright, result, raw_url, timeout, response,
                   headers, caller_headers, supplied>>
    /\ UNCHANGED <<runVars, partVars, resultVars, pipeVars>>

\* a strategy built its Result: store it and return it
FetchReturn(r) ==
    /\ result' = r
    /\ returned' = r
    /\ raised' = NoneVal
    /\ pc' = "done"

\* a strategy failed: its handler leaves self.result alone
KeepResult_StoreFailure == result' = [exc |-> "failed"]

KeepResult == result' = result

(***************************************************************************)
(* WebCrawler.fetch, first strategy: crawl4ai.fetch_and_render.            *)
(***************************************************************************)
\* where the call goes when the crawl4ai strategy gave nothing to return
AfterCrawl4ai_Skip == IF use_playwright THEN "playwright" ELSE "exhausted"

AfterCrawl4ai == "requests"

TryCrawl4ai(payload) ==
    /\ pc = "crawl4ai"
    /\ attempted' = Append(attempted, "crawl4ai")
    /\ LET usable == "content" \in DOMAIN payload
           txt == html_to_text(payload.content)
           r == ResultInit([url |-> url, status |-> 200, text |-> txt.text,
                            html |-> payload.content, headers |-> <<>>])
       IN  IF ~usable
           THEN /\ pc' = AfterCrawl4ai
                /\ KeepResult
                /\ UNCHANGED <<returned, raised, dialogs, reported>>
           ELSE IF IsExc(txt)
           THEN /\ pc' = AfterCrawl4ai
                /\ dialogs' = dialogs + Shown(show_dialog)
                /\ KeepResult
                /\ UNCHANGED <<returned, raised, reported>>
           ELSE /\ reported' = Append(reported, [strategy |-> "crawl4ai", status |-> 200])
                /\ IF IsExc(r)
                   THEN /\ pc' = AfterCrawl4ai
                        /\ dialogs' = dialogs + (IF r.dialog THEN 1 ELSE 0)
                        /\ KeepResult
                        /\ UNCHANGED <<returned, raised>>
                   ELSE /\ FetchReturn(r)
                        /\ UNCHANGED dialogs
    /\ UNCHANGED <<crawl4ai, use_playwright, raw_url, timeout, response, url, time,
                   show_dialog, launched, browser, calls, headers, caller_headers,
                   supplied, wire>>
    /\ UNCHANGED <<runVars, partVars, resultVars, pipeVars>>

(***************************************************************************)
(* fetchers.py: WebFetcher.fetch( url, time, show_dialog ) against the     *)
(* answer resp of requests.get.  The outcome names the fields the call     *)
(* leaves on the instance, what it returns or raises, the dialogs it       *)
(* showed, and whether it obtained content (got as far as building the     *)
(* Result).                                                                *)
(***************************************************************************)
RaiseForStatus(status) == 400 <= status /\ status < 600

WebFetcherFetch(u, t, sd, resp) ==
    LET before == [raw_url |-> raw_url, timeout |-> timeout, response |-> response]
        sent == [raw_url |-> u, timeout |-> t, response |-> response]
        got == [raw_url |-> u, timeout |-> t, response |-> resp]
        txt == html_to_text(resp.text)
        r == ResultInit([url |-> resp.url, status |-> resp.status_code,
                         text |-> txt.text, html |-> resp.text,
                         headers |-> resp.headers])
    IN  IF fetchers_throw_if(u)
        THEN [fields |-> before, out |-> [exc |-> "ValueError"],
              dialogs |-> Shown(sd), content |-> FALSE]
        ELSE IF "raises" \in DOMAIN resp
        THEN [fields |-> sent, out |-> [exc |-> "RequestException"],
              dialogs |-> Shown(sd), content |-> FALSE]
        ELSE IF RaiseForStatus(resp.status_code)
        THEN [fields |-> sent, out |-> [exc |-> "HTTPError"],
              dialogs |-> Shown(sd), content |-> FALSE]
        ELSE IF IsExc(txt)
        THEN [fields |-> got, out |-> [exc |-> "ValueError"],
              dialogs |-> 2 * Shown(sd), content |-> FALSE]
        ELSE IF IsExc(r)
        THEN [fields |-> got, out |-> [exc |-> r.exc],
              dialogs |-> (IF r.dialog THEN 1 ELSE 0) + Shown(sd), content |-> TRUE]
        ELSE [fields |-> got, out |-> r, dialogs |-> 0, content |-> TRUE]

\* requests rejects a URL without a scheme before any I/O
RequestsAnswers(u) ==
    IF Strip(u) = <<>> THEN {[raises |-> TRUE]} ELSE Responses

(***************************************************************************)
(* WebCrawler.fetch, second strategy: super( ).fetch.                      *)
(***************************************************************************)
\* where the call goes when the requests strategy raised
AfterRequests_Always == "playwright"

AfterRequests_Stop == "exhausted"

AfterRequests == IF use_playwright THEN "playwright" ELSE "exhausted"

TryRequests(resp) ==
    /\ pc = "requests"
    /\ resp \in RequestsAnswers(url)
    /\ attempted' = Append(attempted, "requests")
    /\ LET o == WebFetcherFetch(url, time, show_dialog, resp) IN
       /\ raw_url' = o.fields.raw_url
       /\ timeout' = o.fields.timeout
       /\ response' = o.fields.response
       /\ dialogs' = dialogs + o.dialogs
       /\ reported' = IF o.content
                      THEN Append(reported, [strategy |-> "requests",
                                             status |-> resp.status_code])
                      ELSE reported
       /\ IF IsExc(o.out)
          THEN /\ pc' = AfterRequests
               /\ KeepResult
               /\ UNCHANGED <<returned, raised>>
          ELSE FetchReturn(o.out)
    /\ wire' = IF Strip(url) = <<>> THEN wire ELSE Dict(CaseInsensitiveDict(headers))
    /\ UNCHANGED <<crawl4ai, use_playwright, url, time, show_dialog, launched,
                   browser, calls, headers, caller_headers, supplied>>
    /\ UNCHANGED <<runVars, partVars, resultVars, pipeVars>>

(***************************************************************************)
(* fetchers.py: WebCrawler.render_with_playwright against the session r.   *)
(* A failed import raises before anything is launched.  Any later failure  *)
(* is shown in an ErrorDialog and skips browser.close( ); leaving the      *)
(* with-block stops the Playwright driver.                                 *)
(***************************************************************************)
\* __exit__ of the sync_playwright( ) block: the driver is stopped, and a
\* browser it launched that is still open ends with it
WithExit_NoStop(b) == b

WithExit(b) == IF b = "open" THEN "stopped" ELSE b

RenderWithPlaywright(r) ==
    IF r.stage = "import"
    THEN [out |-> [exc |-> "RuntimeError"], dialogs |-> 0, launched |-> 0,
          browser |-> "none"]
    ELSE IF r.stage = "launch"
    THEN [out |-> [exc |-> "Error"], dialogs |-> 1, launched |-> 0,
          browser |-> WithExit("none")]
    ELSE IF r.stage \in {"goto", "wait", "content"}
    THEN [out |-> [exc |-> "Error"], dialogs |-> 1, launched |-> 1,
          browser |-> WithExit("open")]
    ELSE [out |-> [html |-> r.html], dialogs |-> 0, launched |-> 1,
          browser |-> WithExit("closed")]

\* page.goto rejects a URL it cannot navigate to
RenderAnswers(u) ==
    IF Strip(u) = <<>> THEN {r \in Renders : r.stage # "ok"} ELSE Renders

(***************************************************************************)
(* WebCrawler.fetch, third strategy: Playwright, when enabled.             *)
(***************************************************************************)
TryPlaywright(r) ==
    /\ pc = "playwright"
    /\ r \in RenderAnswers(url)
    /\ attempted' = Append(attempted, "playwright")
    /\ LET o == RenderWithPlaywright(r)
           txt == html_to_text(o.out.html)
           built == ResultInit([url |-> url, status |-> 200, text |-> txt.text,
                                html |-> o.out.html, headers |-> <<>>])
       IN  /\ launched' = launched + o.launched
           /\ browser' = o.browser
           /\ IF IsExc(o.out)
              THEN /\ pc' = "exhausted"
                   /\ dialogs' = dialogs + o.dialogs
                   /\ KeepResult
                   /\ UNCHANGED <<returned, raised, reported>>
              ELSE IF IsExc(txt)
              THEN /\ pc' = "exhausted"
                   /\ dialogs' = dialogs + Shown(show_dialog)
                   /\ KeepResult
                   /\ UNCHANGED <<returned, raised, reported>>
              ELSE /\ reported' = Append(reported, [strategy |-> "playwright",
                                                    status |-> 200])
                   /\ IF IsExc(built)
                      THEN /\ pc' = "exhausted"
                           /\ dialogs' = dialogs + (IF built.dialog THEN 1 ELSE 0)
                           /\ KeepResult
                           /\ UNCHANGED <<returned, raised>>
                      ELSE /\ FetchReturn(built)
                           /\ UNCHANGED dialogs
    /\ UNCHANGED <<crawl4ai, use_playwright, raw_url, timeout, response, url, time,
                   show_dialog, calls, headers, caller_headers, supplied, wire>>
    /\ UNCHANGED <<runVars, partVars, resultVars, pipeVars>>

(***************************************************************************)
(* WebCrawler.fetch, all fallbacks exhausted: RuntimeError( "Failed to     *)
(* fetch URL via crawl4ai/requests/playwright: {url}" ).  The message is   *)
(* a constant text plus the url; no reason of any strategy is in it.       *)
(***************************************************************************)
ExhaustedError_Configured(u) ==
    [exc |-> "RuntimeError", via |-> Configured, url |-> u, reasons |-> <<>>]

ExhaustedError(u) ==
    [exc |-> "RuntimeError", via |-> Strategies, url |-> u, reasons |-> <<>>]

RaiseExhausted ==
    /\ pc = "exhausted"
    /\ raised' = ExhaustedError(url)
    /\ returned' = NoneVal
    /\ dialogs' = dialogs + Shown(show_dialog)
    /\ pc' = "done"
    /\ UNCHANGED <<crawl4ai, use_playwright, result, raw_url, timeout, response, url,
                   time, show_dialog, attempted, reported, launched, browser, calls,
                   headers, caller_headers, supplied, wire>>
    /\ UNCHANGED <<runVars, partVars, resultVars, pipeVars>>

(***************************************************************************)
(* Markup handed to the converters and extractors.  A markup str is kept   *)
(* as the tree the html.parser builder of BeautifulSoup makes of it: a     *)
(* sequence of nodes, a node being a text string [text] or an element      *)
(* [name, children].  The empty str has no nodes.                          *)
(***************************************************************************)
Some(s) == [kind |-> "str", v |-> s]

Markup(nodes) == [kind |-> "markup", nodes |-> nodes]

Text(s) == [text |-> s]

Element(name, children) == [name |-> name, children |-> children]

IsText(n) == "text" \in DOMAIN n

\* every string of the tree, in document order
RECURSIVE Strings(_)
Strings(nodes) ==
    IF nodes = <<>> THEN <<>>
    ELSE LET n == Head(nodes) IN
         (IF IsText(n) THEN <<n.text>> ELSE Strings(n.children))
             \o Strings(Tail(nodes))

\* str.strip( ) of the whole markup is empty
IsBlankMarkup(h) == \A i \in 1..Len(Strings(h.nodes)) : Strip(Strings(h.nodes)[i]) = <<>>

NoElements(h) == \A i \in 1..Len(h.nodes) : IsText(h.nodes[i])

(***************************************************************************)
(* converters.py: throw_if raises ValueError on None and on an empty or    *)
(* whitespace-only str.                                                    *)
(***************************************************************************)
converters_throw_if(value) ==
    \/ value = NoneVal
    \/ (NoElements(value) /\ IsBlankMarkup(value))

(***************************************************************************)
(* extractors.py: throw_if raises ValueError when the value is falsy.      *)
(***************************************************************************)
extractors_throw_if(value) ==
    \/ value = NoneVal
    \/ value.nodes = <<>>

(***************************************************************************)
(* BeautifulSoup operations used by SoupFallbackConverter.                 *)
(***************************************************************************)
RECURSIVE Join(_, _)
Join(parts, sep) ==
    IF parts = <<>> THEN <<>>
    ELSE IF Len(parts) = 1 THEN parts[1]
    ELSE parts[1] \o sep \o Join(Tail(parts), sep)

RECURSIVE StripAll(_)
StripAll(strings) ==
    IF strings = <<>> THEN <<>>
    ELSE LET t == Strip(Head(strings)) IN
         (IF t = <<>> THEN <<>> ELSE <<t>>) \o StripAll(Tail(strings))

\* get_text( sep, strip = True ) over a sequence of nodes
get_text(nodes, sep) == Join(StripAll(Strings(nodes)), sep)

\* tag.decompose( ) for every tag named in names
RECURSIVE Decompose(_, _)
Decompose(nodes, names) ==
    IF nodes = <<>> THEN <<>>
    ELSE LET n == Head(nodes) IN
         (IF IsText(n) THEN <<n>>
          ELSE IF n.name \in names THEN <<>>
          ELSE <<Element(n.name, Decompose(n.children, names))>>)
             \o Decompose(Tail(nodes), names)

\* find_all( names ): the matching descendants, in document order
RECURSIVE find_all(_, _)
find_all(nodes, names) ==
    IF nodes = <<>> THEN <<>>
    ELSE LET n == Head(nodes) IN
         (IF IsText(n) THEN <<>>
          ELSE (IF n.name \in names THEN <<n>> ELSE <<>>)
                   \o find_all(n.children, names))
             \o find_all(Tail(nodes), names)

\* str.splitlines( )
RECURSIVE SplitLines(_)
SplitLines(s) ==
    LET breaks == {i \in 1..Len(s) : s[i] = "\n"} IN
    IF s = <<>> THEN <<>>
    ELSE IF breaks = {} THEN <<s>>
    ELSE <<SubSeq(s, 1, Min(breaks) - 1)>>
             \o SplitLines(SubSeq(s, Min(breaks) + 1, Len(s)))

NoiseTags_ScriptStyle == {"script", "style"}

NoiseTags == {"script", "style", "noscript", "svg", "canvas", "iframe", "form"}

HeadingTags == {"h1", "h2", "h3", "h4", "h5", "h6"}

BlockNames == HeadingTags \cup {"p", "li", "blockquote", "pre", "code"}

\* int( tag_name[ 1: ] )
HeadingLevel(name) ==
    CASE name = "h1" -> 1
      [] name = "h2" -> 2
      [] name = "h3" -> 3
      [] name = "h4" -> 4
      [] name = "h5" -> 5
      [] name = "h6" -> 6

Repeat(c, n) == [i \in 1..n |-> c]

(***************************************************************************)
(* converters.py: SoupFallbackConverter.convert.  m holds the fields of    *)
(* the converter object before the call; the outcome holds them after it.  *)
(***************************************************************************)
NewMember == [raw_html |-> NoneVal, parsed_text |-> NoneVal, blocks |-> <<>>]

RECURSIVE NonBlankLines(_)
NonBlankLines(lines) ==
    IF lines = <<>> THEN <<>>
    ELSE (IF Strip(Head(lines)) = <<>> THEN <<>> ELSE <<Head(lines)>>)
             \o NonBlankLines(Tail(lines))

\* the block appended for one element
BlockOf(el) ==
    LET txt == get_text(el.children, <<" ">>)
        lines == NonBlankLines(SplitLines(txt))
        quoted == [i \in 1..Len(lines) |-> <<">", " ">> \o lines[i]]
    IN  IF txt = <<>> THEN <<>>
        ELSE IF el.name \in HeadingTags
        THEN <<Repeat("#", HeadingLevel(el.name)) \o <<" ">> \o txt>>
        ELSE IF el.name = "li" THEN <<<<"-", " ">> \o txt>>
        ELSE IF el.name = "blockquote" THEN <<Join(quoted, <<"\n">>)>>
        ELSE <<txt>>

RECURSIVE BlocksOf(_)
BlocksOf(els) ==
    IF els = <<>> THEN <<>> ELSE BlockOf(Head(els)) \o BlocksOf(Tail(els))

\* self.soup.body or self.soup
BodyOf(nodes) ==
    LET bodies == find_all(nodes, {"body"}) IN
    IF bodies = <<>> THEN nodes ELSE bodies[1].children

\* self.blocks = [ ] at the start of a run
ClearedBlocks_Kept(m) == m.blocks

ClearedBlocks(m) == <<>>

SoupFallbackConverter_convert(m, h) ==
    IF converters_throw_if(h)
    THEN [out |-> [ret |-> NoneVal], dialogs |-> 1, member |-> m]
    ELSE LET soup == Decompose(h.nodes, NoiseTags)
             body == BodyOf(soup)
             blocks == ClearedBlocks(m) \o BlocksOf(find_all(body, BlockNames))
             text == IF blocks = <<>>
                     THEN get_text(body, <<"\n">>)
                     ELSE Join(blocks, <<"\n", "\n">>)
         IN  [out |-> [ret |-> Some(text)], dialogs |-> 0,
              member |-> [raw_html |-> h, parsed_text |-> Some(text),
                          blocks |-> blocks]]

(***************************************************************************)
(* converters.py: Html2TextConverter.convert.  A missing library is a      *)
(* RuntimeError that the converter catches itself: dialog, then None.      *)
(***************************************************************************)
Html2TextConverter_convert(m, h) ==
    IF converters_throw_if(h) \/ ~has_html2text
    THEN [out |-> [ret |-> NoneVal], dialogs |-> 1, member |-> m]
    ELSE LET md == Strip(html2text[h]) IN
         [out |-> [ret |-> Some(md)], dialogs |-> 0,
          member |-> [raw_html |-> h, parsed_text |-> Some(md), blocks |-> m.blocks]]

(***************************************************************************)
(* parsers.py: throw_if raises ValueError when the value is falsy.         *)
(***************************************************************************)
parsers_throw_if(value) ==
    \/ value = NoneVal
    \/ value.nodes = <<>>

(***************************************************************************)
(* parsers.py: SoupFallbackConverter.convert.  Without a body element the  *)
(* text of the whole document is returned before any block is looked for.  *)
(* self.blocks is set in __init__ only: the loop appends to what earlier   *)
(* calls left there.  An early return leaves parsed_text as it was.        *)
(***************************************************************************)
parsers_SoupFallbackConverter_convert(m, h) ==
    IF parsers_throw_if(h)
    THEN [out |-> [ret |-> NoneVal], dialogs |-> 1, member |-> m]
    ELSE LET soup == Decompose(h.nodes, NoiseTags)
             bodies == find_all(soup, {"body"})
             body == bodies[1].children
             blocks == m.blocks \o BlocksOf(find_all(body, BlockNames))
             text == Join(blocks, <<"\n", "\n">>)
         IN  IF bodies = <<>>
             THEN [out |-> [ret |-> Some(get_text(soup, <<"\n">>))], dialogs |-> 0,
                   member |-> [m EXCEPT !.raw_html = h]]
             ELSE IF blocks = <<>>
             THEN [out |-> [ret |-> Some(get_text(body, <<"\n">>))], dialogs |-> 0,
                   member |-> [m EXCEPT !.raw_html = h]]
             ELSE [out |-> [ret |-> Some(text)], dialogs |-> 0,
                   member |-> [raw_html |-> h, parsed_text |-> Some(text),
                               blocks |-> blocks]]

(***************************************************************************)
(* extractors.py: HeuristicExtractor.extract.  The handler shows a dialog  *)
(* and the method ends without a return.                                   *)
(***************************************************************************)
\* x for x in paragraphs if x
RECURSIVE KeepTruthy(_)
KeepTruthy(parts) ==
    IF parts = <<>> THEN <<>>
    ELSE (IF Truthy(Head(parts)) THEN <<Head(parts)>> ELSE <<>>)
             \o KeepTruthy(Tail(parts))

\* the str that joins the paragraphs
ParagraphSeparator_Space == <<" ">>

ParagraphSeparator == <<>>

HeuristicExtractor_extract(h) ==
    IF extractors_throw_if(h)
    THEN [out |-> [ret |-> NoneVal], dialogs |-> 1]
    ELSE LET ps == find_all(h.nodes, {"p"})
             paragraphs == [i \in 1..Len(ps) |-> get_text(ps[i].children, <<" ">>)]
         IN  [out |-> [ret |-> Some(Join(KeepTruthy(paragraphs), ParagraphSeparator))],
              dialogs |-> 0]

(***************************************************************************)
(* extractors.py: ReadabilityExtractor.extract.  soup.find( "article" )    *)
(* is the first article element or None; a Tag is truthy whatever it       *)
(* holds.                                                                  *)
(***************************************************************************)
TagTruthy_ByContents(el) == el.children # <<>>

TagTruthy(el) == TRUE

ReadabilityExtractor_extract(h) ==
    IF extractors_throw_if(h)
    THEN [out |-> [ret |-> NoneVal], dialogs |-> 1]
    ELSE LET articles == find_all(h.nodes, {"article"})
             found == articles # <<>> /\ TagTruthy(articles[1])
         IN  [out |-> [ret |-> Some(IF found
                                    THEN get_text(articles[1].children, <<" ">>)
                                    ELSE get_text(h.nodes, <<" ">>))],
              dialogs |-> 0]

(***************************************************************************)
(* Strategy objects a caller may put in a chain besides the two            *)
(* converters: one that raises, and ones that return None, "", " ", or a   *)
(* text.                                                                   *)
(***************************************************************************)
StubKinds == {"Raising", "ReturnsNone", "ReturnsEmpty", "ReturnsBlank", "ReturnsA"}

RealConverters == {"Html2TextConverter", "SoupFallbackConverter"}

StubOutcome(kind) ==
    CASE kind = "Raising" -> [exc |-> "boom"]
      [] kind = "ReturnsNone" -> [ret |-> NoneVal]
      [] kind = "ReturnsEmpty" -> [ret |-> Some(<<>>)]
      [] kind = "ReturnsBlank" -> [ret |-> Some(<<" ">>)]
      [] kind = "ReturnsA" -> [ret |-> Some(<<"A">>)]

\* c.convert( html ) for the converter at one position of the chain
ConverterOutcome(kind, m, h) ==
    CASE kind = "Html2TextConverter" -> Html2TextConverter_convert(m, h)
      [] kind = "SoupFallbackConverter" -> SoupFallbackConverter_convert(m, h)
      [] OTHER -> [out |-> StubOutcome(kind), dialogs |-> 0, member |-> m]

\* extractor.extract( html ) for the extractor at one position of the chain
ExtractorOutcome(kind, h) == StubOutcome(kind)

\* bool( md ) of an Optional[str]
TruthyStr(md) == md # NoneVal /\ md.v # <<>>

(***************************************************************************)
(* Inputs of the runner model.                                             *)
(***************************************************************************)
DocTitle ==
    Markup(<<Element("h2", <<Text(<<"Title">>)>>),
             Element("p", <<Text(<<"Body", " ", "text">>)>>),
             Element("ul", <<Element("li", <<Text(<<"One">>)>>)>>)>>)

DocScript == Markup(<<Element("script", <<Text(<<"x">>)>>)>>)

DocQuote ==
    Markup(<<Element("body",
               <<Element("blockquote", <<Text(<<"q", "\n", " ", "\n", "r">>)>>),
                 Element("form", <<Element("p", <<Text(<<"f">>)>>)>>)>>)>>)

Documents == {DocTitle, DocScript, DocQuote}

MarkupInputs ==
    {NoneVal, Markup(<<>>), Markup(<<Text(<<" ">>)>>)} \cup Documents

\* what html2text.HTML2Text( ).handle may give for a markup
Html2TextOutputs == {<<"\n">>, <<"m", "\n">>}

Chains(kinds) == UNION {[1..n -> kinds] : n \in 0..MaxStrategies}

(***************************************************************************)
(* Construction of the runners.                                            *)
(***************************************************************************)
InitRun ==
    /\ errors = <<>>
    /\ raw_html = NoneVal
    /\ parsed_text = NoneVal
    /\ members = [i \in 1..Len(converters) |-> NewMember]
    /\ run_op = "convert"
    /\ run_pc = "idle"
    /\ html = NoneVal
    /\ idx = 1
    /\ invoked = <<>>
    /\ run_returned = NoneVal
    /\ run_raised = NoneVal
    /\ run_shown = NoneVal
    /\ run_dialogs = 0
    /\ run_calls = 0
    /\ log = {}

NoLibrary ==
    /\ has_html2text = FALSE
    /\ html2text = [d \in Documents |-> <<"\n">>]

RunFinish(op, h, value, shown, d) ==
    /\ run_returned' = value
    /\ run_raised' = NoneVal
    /\ run_shown' = shown
    /\ run_dialogs' = d
    /\ run_pc' = "done"
    /\ log' = log \cup {[op |-> op, html |-> h, out |-> value]}

RunBegin(op, h) ==
    /\ run_pc \in {"idle", "done"}
    /\ run_op' = op
    /\ run_calls < MaxCalls
    /\ run_calls' = run_calls + 1
    /\ html' = h
    /\ idx' = 1
    /\ invoked' = <<>>

(***************************************************************************)
(* converters.py: CompositeMarkdownConverter.convert.                      *)
(***************************************************************************)
ConvertCall_NoReset(h) ==
    /\ RunBegin("convert", h)
    /\ IF converters_throw_if(h)
       THEN /\ RunFinish("convert", h, NoneVal, [exc |-> "ValueError"], 1)
            /\ UNCHANGED <<raw_html, errors>>
       ELSE /\ raw_html' = h
            /\ run_pc' = "convert"
            /\ run_dialogs' = 0
            /\ run_shown' = NoneVal
            /\ UNCHANGED <<errors, run_returned, run_raised, log>>
    /\ UNCHANGED <<has_html2text, html2text, converters, parsed_text, members,
                   extractors>>
    /\ UNCHANGED <<fetchVars, partVars, resultVars, pipeVars>>

ConvertCall(h) ==
    /\ RunBegin("convert", h)
    /\ IF converters_throw_if(h)
       THEN /\ RunFinish("convert", h, NoneVal, [exc |-> "ValueError"], 1)
            /\ UNCHANGED <<raw_html, errors>>
       ELSE /\ raw_html' = h
            /\ errors' = <<>>
            /\ run_pc' = "convert"
            /\ run_dialogs' = 0
            /\ run_shown' = NoneVal
            /\ UNCHANGED <<run_returned, run_raised, log>>
    /\ UNCHANGED <<has_html2text, html2text, converters, parsed_text, members,
                   extractors>>
    /\ UNCHANGED <<fetchVars, partVars, resultVars, pipeVars>>

ConvertStep ==
    /\ run_pc = "convert"
    /\ idx <= Len(converters)
    /\ invoked' = Append(invoked, idx)
    /\ LET o == ConverterOutcome(converters[idx], members[idx], html) IN
       /\ members' = [members EXCEPT ![idx] = o.member]
       /\ IF IsExc(o.out)
          THEN /\ errors' = Append(errors, [name |-> converters[idx],
                                            error |-> o.out.exc])
               /\ idx' = idx + 1
               /\ run_dialogs' = run_dialogs + o.dialogs
               /\ UNCHANGED <<parsed_text, run_pc, run_returned, run_raised,
                              run_shown, log>>
          ELSE IF TruthyStr(o.out.ret)
          THEN /\ parsed_text' = o.out.ret
               /\ RunFinish("convert", html, o.out.ret, run_shown, run_dialogs + o.dialogs)
               /\ UNCHANGED <<errors, idx>>
          ELSE /\ idx' = idx + 1
               /\ run_dialogs' = run_dialogs + o.dialogs
               /\ UNCHANGED <<errors, parsed_text, run_pc, run_returned, run_raised,
                              run_shown, log>>
    /\ UNCHANGED <<has_html2text, html2text, converters, raw_html, extractors,
                   run_op, html, run_calls>>
    /\ UNCHANGED <<fetchVars, partVars, resultVars, pipeVars>>

\* none succeeded: the RuntimeError is raised inside the outer try, whose
\* handler shows it in a dialog; the method then ends without a return
AllFailedError(errs) ==
    [exc |-> "RuntimeError", entries |-> errs, placeholder |-> errs = <<>>]

ConvertExhausted ==
    /\ run_pc = "convert"
    /\ idx > Len(converters)
    /\ RunFinish("convert", html, NoneVal, AllFailedError(errors), run_dialogs + 1)
    /\ UNCHANGED <<has_html2text, html2text, converters, errors, raw_html,
                   parsed_text, members, extractors, run_op, html, idx, invoked,
                   run_calls>>
    /\ UNCHANGED <<fetchVars, partVars, resultVars, pipeVars>>

(***************************************************************************)
(* extractors.py: CompositeExtractor.extract.                              *)
(***************************************************************************)
ExtractCall(h) ==
    /\ RunBegin("extract", h)
    /\ IF extractors_throw_if(h)
       THEN RunFinish("extract", h, NoneVal, [exc |-> "ValueError"], 1)
       ELSE /\ run_pc' = "extract"
            /\ run_dialogs' = 0
            /\ run_shown' = NoneVal
            /\ UNCHANGED <<run_returned, run_raised, log>>
    /\ UNCHANGED <<has_html2text, html2text, converters, errors, raw_html,
                   parsed_text, members, extractors>>
    /\ UNCHANGED <<fetchVars, partVars, resultVars, pipeVars>>

Accepted_NoStrip(text) == TruthyStr(text)

\* text and text.strip( )
Accepted(text) == TruthyStr(text) /\ Strip(text.v) # <<>>

ExtractStep ==
    /\ run_pc = "extract"
    /\ idx <= Len(extractors)
    /\ invoked' = Append(invoked, idx)
    /\ LET o == ExtractorOutcome(extractors[idx], html) IN
       IF IsExc(o)
       THEN /\ RunFinish("extract", html, NoneVal, o, run_dialogs + 1)
            /\ UNCHANGED idx
       ELSE IF Accepted(o.ret)
       THEN /\ RunFinish("extract", html, o.ret, run_shown, run_dialogs)
            /\ UNCHANGED idx
       ELSE /\ idx' = idx + 1
            /\ UNCHANGED <<run_pc, run_returned, run_raised, run_shown, run_dialogs,
                           log>>
    /\ UNCHANGED <<has_html2text, html2text, converters, errors, raw_html,
                   parsed_text, members, extractors, run_op, html, run_calls>>
    /\ UNCHANGED <<fetchVars, partVars, resultVars, pipeVars>>

ExtractExhausted ==
    /\ run_pc = "extract"
    /\ idx > Len(extractors)
    /\ RunFinish("extract", html, Some(<<>>), run_shown, run_dialogs)
    /\ UNCHANGED <<has_html2text, html2text, converters, errors, raw_html,
                   parsed_text, members, extractors, run_op, html, idx, invoked,
                   run_calls>>
    /\ UNCHANGED <<fetchVars, partVars, resultVars, pipeVars>>

(***************************************************************************)
(* Inputs of the strategy objects used on their own.                       *)
(***************************************************************************)
DocPara ==
    Markup(<<Element("p", <<Text(<<"A">>)>>), Element("p", <<Text(<<"B">>)>>)>>)

DocArticle ==
    Markup(<<Element("div", <<Text(<<"n">>)>>),
             Element("article", <<Element("p", <<Text(<<"A">>)>>), Text(<<"c">>)>>),
             Element("article", <<Text(<<"z">>)>>)>>)

DocEmptyArticle ==
    Markup(<<Element("article", <<>>), Element("p", <<Text(<<"x">>)>>)>>)

DocHeadings ==
    Markup(<<Element("body",
               <<Element("h1", <<Text(<<"T">>)>>),
                 Element("svg", <<Element("h3", <<Text(<<"g">>)>>)>>),
                 Element("pre", <<Element("code", <<Text(<<"d">>)>>)>>),
                 Element("p", <<Text(<<" ">>)>>),
                 Element("h6", <<Text(<<"S">>)>>)>>)>>)

PartDocuments == Documents \cup {DocPara, DocArticle, DocEmptyArticle, DocHeadings}

PartInputs ==
    {NoneVal, Markup(<<>>), Markup(<<Text(<<" ">>)>>)} \cup PartDocuments

InitParts ==
    /\ soup_conv = NewMember
    /\ soup_pars = NewMember
    /\ part_op = "none"
    /\ part_html = NoneVal
    /\ part_out = NoneVal
    /\ part_dialogs = 0
    /\ part_calls = 0

\* one call of a strategy object: what it is, and what came of it
PartCall(op, h, o) ==
    /\ part_calls < MaxCalls
    /\ part_calls' = part_calls + 1
    /\ part_op' = op
    /\ part_html' = h
    /\ part_out' = o.out.ret
    /\ part_dialogs' = o.dialogs

\* converters.py: SoupFallbackConverter( ).convert( h )
SoupConvert(h) ==
    LET o == SoupFallbackConverter_convert(soup_conv, h) IN
    /\ PartCall("converters.SoupFallbackConverter", h, o)
    /\ soup_conv' = o.member
    /\ UNCHANGED soup_pars
    /\ UNCHANGED compositeVars
    /\ UNCHANGED <<fetchVars, runVars, resultVars, pipeVars>>

\* parsers.py: SoupFallbackConverter( ).convert( h )
ParsersSoupConvert(h) ==
    LET o == parsers_SoupFallbackConverter_convert(soup_pars, h) IN
    /\ PartCall("parsers.SoupFallbackConverter", h, o)
    /\ soup_pars' = o.member
    /\ UNCHANGED soup_conv
    /\ UNCHANGED compositeVars
    /\ UNCHANGED <<fetchVars, runVars, resultVars, pipeVars>>

\* extractors.py: HeuristicExtractor( ).extract( h )
HeuristicExtract(h) ==
    /\ PartCall("HeuristicExtractor", h, HeuristicExtractor_extract(h))
    /\ UNCHANGED <<soup_conv, soup_pars>>
    /\ UNCHANGED compositeVars
    /\ UNCHANGED <<fetchVars, runVars, resultVars, pipeVars>>

\* extractors.py: ReadabilityExtractor( ).extract( h )
ReadabilityExtract(h) ==
    /\ PartCall("ReadabilityExtractor", h, ReadabilityExtractor_extract(h))
    /\ UNCHANGED <<soup_conv, soup_pars>>
    /\ UNCHANGED compositeVars
    /\ UNCHANGED <<fetchVars, runVars, resultVars, pipeVars>>

NextParts ==
    \/ \E h \in PartInputs : SoupConvert(h)
    \/ \E h \in PartInputs : ParsersSoupConvert(h)
    \/ \E h \in PartInputs : HeuristicExtract(h)
    \/ \E h \in PartInputs : ReadabilityExtract(h)

(***************************************************************************)
(* parsers.py: Html2TextConverter.convert.  There is no guard on html; a   *)
(* missing library, like any failure of the library, is caught by the      *)
(* converter itself: dialog, then None.                                    *)
(***************************************************************************)
parsers_Html2TextConverter_convert(m, h) ==
    IF ~has_html2text
    THEN [out |-> [ret |-> NoneVal], dialogs |-> 1, member |-> m]
    ELSE IF h = NoneVal
    THEN [out |-> [ret |-> NoneVal], dialogs |-> 1,
          member |-> [m EXCEPT !.raw_html = h]]
    ELSE LET md == Strip(IF h \in DOMAIN html2text THEN html2text[h] ELSE <<"\n">>) IN
         [out |-> [ret |-> Some(md)], dialogs |-> 0,
          member |-> [m EXCEPT !.raw_html = h, !.parsed_text = Some(md)]]

(***************************************************************************)
(* parsers.py: CompositeMarkdownConverter( converters ).convert( html ).   *)
(* The loop returns what the first converter that does not raise returns;  *)
(* a converter that raises is noted in self.errors, which is set in        *)
(* __init__ only.  With the chain used up the RuntimeError is caught by    *)
(* the method's own handler: dialog, then None.                            *)
(***************************************************************************)
ParsersKinds == {"Html2TextConverter", "SoupFallbackConverter", "Raising"}

\* c.convert( html ) for the converter at one position of the chain
ParsersConverterOutcome(kind, m, h) ==
    CASE kind = "Html2TextConverter" -> parsers_Html2TextConverter_convert(m, h)
      [] kind = "SoupFallbackConverter" -> parsers_SoupFallbackConverter_convert(m, h)
      [] OTHER -> [out |-> StubOutcome(kind), dialogs |-> 0, member |-> m]

\* the loop from position i on: ms are the fields of the converters, errs
\* is self.errors, d the dialogs shown and tr the converters invoked so far
RECURSIVE ParsersLoop(_, _, _, _, _, _, _)
ParsersLoop(chain, ms, h, i, errs, d, tr) ==
    IF i > Len(chain)
    THEN [ret |-> NoneVal, members |-> ms, errors |-> errs, dialogs |-> d + 1,
          trace |-> tr]
    ELSE LET o == ParsersConverterOutcome(chain[i], ms[i], h)
             ms1 == [ms EXCEPT ![i] = o.member]
             tr1 == Append(tr, [position |-> i, out |-> o.out])
         IN  IF IsExc(o.out)
             THEN ParsersLoop(chain, ms1, h, i + 1,
                              Append(errs, [converter |-> chain[i], error |-> o.out.exc]),
                              d + o.dialogs, tr1)
             ELSE [ret |-> o.out.ret, members |-> ms1, errors |-> errs,
                   dialogs |-> d + o.dialogs, trace |-> tr1]

parsers_CompositeMarkdownConverter_convert(chain, ms, errs, h) ==
    ParsersLoop(chain, ms, h, 1, errs, 0, <<>>)

\* parsers.py: CompositeMarkdownConverter.__init__( chain )
CompositeOver(chain) ==
    /\ pars_converters = chain
    /\ pars_members = [i \in 1..Len(chain) |-> NewMember]
    /\ pars_errors = <<>>
    /\ pars_trace = <<>>

\* parsers.py: the composite's convert( h )
ParsersCompositeConvert(h) ==
    LET o == parsers_CompositeMarkdownConverter_convert(pars_converters, pars_members,
                                                        pars_errors, h)
    IN  /\ PartCall("parsers.CompositeMarkdownConverter", h,
                    [out |-> [ret |-> o.ret], dialogs |-> o.dialogs])
        /\ pars_members' = o.members
        /\ pars_errors' = o.errors
        /\ pars_trace' = o.trace
        /\ UNCHANGED <<pars_converters, soup_conv, soup_pars>>
        /\ UNCHANGED <<fetchVars, runVars, resultVars, pipeVars>>

NextParsers == \E h \in MarkupInputs : ParsersCompositeConvert(h)

(***************************************************************************)
(* dict objects of the heap.                                               *)
(***************************************************************************)
\* dict( d ): a new dict object with the items of dict id
DictCopy_Alias(hp, id) == [heap |-> hp, id |-> id]

DictCopy(hp, id) == [heap |-> Append(hp, hp[id]), id |-> Len(hp) + 1]

\* { }: a new empty dict object
DictNew(hp) == [heap |-> Append(hp, <<>>), id |-> Len(hp) + 1]

\* dict( headers or { } ), headers being None (0) or the dict hd
DictOfOptional(hp, hd) ==
    IF hd = 0 \/ hp[hd] = <<>> THEN DictNew(hp) ELSE DictCopy(hp, hd)

(***************************************************************************)
(* core.py: Result( url, status_code, text, headers = hd ) called by       *)
(* position or with the names of the signature.  u is None or a str.       *)
(***************************************************************************)
ResultOf(u, sc, t, items) ==
    IF u = NoneVal
    THEN [exc |-> "ValueError", dialog |-> TRUE]
    ELSE ResultInit([url |-> u.v, status_code |-> sc, text |-> t, headers |-> items])

\* the fields of a Result, its headers read through the heap
FieldsOf(r, hp) == [r EXCEPT !.headers = hp[r.headers]]

(***************************************************************************)
(* writers.py: MarkdownWriter.write( result, path ).                       *)
(***************************************************************************)
\* writers.py: throw_if raises ValueError when the value is falsy
writers_throw_if(value) ==
    value = NoneVal \/ ("v" \in DOMAIN value /\ value.v = <<>>)

DigitChars == <<"0", "1", "2", "3", "4", "5", "6", "7", "8", "9">>

\* str( n ) of a non-negative int
RECURSIVE IntToStr(_)
IntToStr(n) ==
    IF n < 10 THEN <<DigitChars[n + 1]>>
    ELSE IntToStr(n \div 10) \o <<DigitChars[(n % 10) + 1]>>

FrontMatter_NoBlankLine(r) ==
    <<"-", "-", "-", "\n">>
        \o <<"source_url", ":", " ">> \o r.url \o <<"\n">>
        \o <<"status_code", ":", " ">> \o IntToStr(r.status_code) \o <<"\n">>
        \o <<"-", "-", "-", "\n">>

FrontMatter(r) ==
    <<"-", "-", "-", "\n">>
        \o <<"source_url", ":", " ">> \o r.url \o <<"\n">>
        \o <<"status_code", ":", " ">> \o IntToStr(r.status_code) \o <<"\n">>
        \o <<"-", "-", "-", "\n", "\n">>

\* text.endswith( "\n" )
EndsWithNewline(t) == t # <<>> /\ t[Len(t)] = "\n"

BodyOfText(t) == IF EndsWithNewline(t) THEN t ELSE t \o <<"\n">>

\* the outcome of write: the content put in the file, or None when the
\* guard or the file system failed; the handler builds an ErrorDialog and
\* never shows it
MarkdownWriter_write(w, r, path, io_ok) ==
    IF writers_throw_if(r) \/ writers_throw_if(path)
    THEN [ret |-> NoneVal, content |-> NoneVal, dialogs |-> 0, writer |-> w]
    ELSE IF ~io_ok
    THEN [ret |-> NoneVal, content |-> NoneVal, dialogs |-> 0,
          writer |-> [file_path |-> path, result |-> r]]
    ELSE [ret |-> path, content |-> Some(FrontMatter(r) \o BodyOfText(r.text)),
          dialogs |-> 0, writer |-> [file_path |-> path, result |-> r]]

(***************************************************************************)
(* Inputs of the Result and writer model.                                  *)
(***************************************************************************)
HttpX == <<"h", "t", "t", "p", ":", "/", "/", "x">>

OptionalUrls == {NoneVal, Some(<<>>), Some(<<" ">>), Some(HttpX)}

StatusCodes == {0, 200}

Texts == {<<>>, <<"h", "i">>, <<"h", "i", "\n">>, <<"h", "i", "\n", "\n">>}

CallerMappings == {<<>>, <<[k |-> "Server", v |-> "s"]>>}

HeaderNames == {"Server", "X"}

Paths == {Some(<<>>), Some(<<"out/page.md">>)}

InitResult ==
    /\ heap \in {<<m>> : m \in CallerMappings}
    /\ given = 1
    /\ res = NoneVal
    /\ born = NoneVal
    /\ exported = NoneVal
    /\ res_raised = NoneVal
    /\ file = NoneVal
    /\ written = NoneVal
    /\ writer = [file_path |-> NoneVal, result |-> NoneVal]
    /\ res_dialogs = 0
    /\ res_calls = 0

ResultStep ==
    /\ res_calls < MaxCalls
    /\ res_calls' = res_calls + 1

\* the caller constructs a Result; hd is 0 for headers = None
NewResult(u, sc, t, hd) ==
    /\ ResultStep
    /\ LET passed == IF hd = 0 THEN <<>> ELSE heap[hd]
           r == ResultOf(u, sc, t, passed)
           d == DictOfOptional(heap, hd)
       IN  IF IsExc(r)
           THEN /\ res_raised' = [exc |-> r.exc]
                /\ res_dialogs' = IF r.dialog THEN 1 ELSE 0
                /\ UNCHANGED <<heap, res, born>>
           ELSE /\ heap' = d.heap
                /\ res' = [r EXCEPT !.headers = d.id]
                /\ born' = FieldsOf(res', heap')
                /\ res_raised' = NoneVal
                /\ res_dialogs' = 0
    /\ UNCHANGED <<given, exported, file, written, writer>>
    /\ UNCHANGED <<fetchVars, runVars, partVars, pipeVars>>

\* core.py: Result.to_dict
ToDict ==
    /\ ResultStep
    /\ res # NoneVal
    /\ LET d == DictCopy(heap, res.headers) IN
       /\ heap' = d.heap
       /\ exported' = [res EXCEPT !.headers = d.id]
    /\ res_dialogs' = 0
    /\ UNCHANGED <<given, res, born, res_raised, file, written, writer>>
    /\ UNCHANGED <<fetchVars, runVars, partVars, pipeVars>>

\* the dicts the caller holds: the one passed to the constructor and the
\* headers of the dict that to_dict returned
CallerDicts == {given} \cup (IF exported = NoneVal THEN {} ELSE {exported.headers})

\* the caller changes a dict of theirs
CallerSets(id, k, v) ==
    /\ ResultStep
    /\ id \in CallerDicts
    /\ heap' = [heap EXCEPT ![id] = SetItem(heap[id], k, v)]
    /\ UNCHANGED <<given, res, born, exported, res_raised, file, written, writer,
                   res_dialogs>>
    /\ UNCHANGED <<fetchVars, runVars, partVars, pipeVars>>

\* writers.py: MarkdownWriter( ).write( res, path )
Write(path, io_ok) ==
    /\ ResultStep
    /\ LET o == MarkdownWriter_write(writer, res, path, io_ok) IN
       /\ writer' = o.writer
       /\ written' = o.ret
       /\ file' = IF o.content = NoneVal THEN file ELSE o.content
       /\ res_dialogs' = o.dialogs
    /\ UNCHANGED <<heap, given, res, born, exported, res_raised>>
    /\ UNCHANGED <<fetchVars, runVars, partVars, pipeVars>>

NextResult ==
    \/ \E u \in OptionalUrls, sc \in StatusCodes, t \in Texts, hd \in {0, 1} :
           NewResult(u, sc, t, hd)
    \/ ToDict
    \/ \E id \in 1..(MaxCalls + 1), k \in HeaderNames : CallerSets(id, k, "c")
    \/ \E path \in Paths, io_ok \in BOOLEAN : Write(path, io_ok)

(***************************************************************************)
(* scrapers.py: Scraper.scrape( url, file, dir ), reached through          *)
(* facades.py: Soupy.save_as_markdown( url, filename, output_dir ).  The    *)
(* Scraper holds Fetcher( ), Parser( ) and Writer( ).                       *)
(***************************************************************************)
\* scrapers.py: throw_if raises ValueError when the value is falsy
scrapers_throw_if(value) == ~Truthy(value)

\* fetchers.py: Fetcher.fetch of the base class, whatever the url serves
Fetcher_fetch(u, served) == [exc |-> "NotImplementedError"]

\* the parse step of the pipeline: the text of the markup, None when no
\* text is left
Parser_parse(raw) ==
    LET t == html_to_text(raw) IN IF t = <<>> THEN NoneVal ELSE Some(t)

\* pathlib: Path( directory ) / f'{filename}.md'
MarkdownPath(directory, filename) == directory \o <<"/">> \o filename \o <<".md">>

\* writers.py: Writer.write( text, filename, directory ); text is None or a
\* str.  The handler shows an ErrorDialog and the call returns None.
Writer_write(text, filename, directory, io_ok) ==
    IF text = NoneVal \/ ~Truthy(text.v) \/ ~Truthy(filename) \/ ~io_ok
    THEN [ret |-> NoneVal, wrote |-> NoneVal, dialogs |-> 1]
    ELSE [ret |-> Some(MarkdownPath(directory, filename)),
          wrote |-> [path |-> MarkdownPath(directory, filename), content |-> text.v],
          dialogs |-> 0]

\* the handler of scrape: an ErrorDialog is shown and the call returns None
ScrapeHandled(s, stages) ==
    [scraper |-> s, ret |-> NoneVal, raised |-> NoneVal, stages |-> stages,
     wrote |-> NoneVal, dialogs |-> 1]

\* the call returns before the next collaborator is reached
ScrapeStopped(s, stages) ==
    [scraper |-> s, ret |-> NoneVal, raised |-> NoneVal, stages |-> stages,
     wrote |-> NoneVal, dialogs |-> 0]

Scraper_scrape_WriteFirst(s, u, f, dir, served, io_ok) ==
    LET w == Writer_write(Some(u), f, dir, TRUE) IN
    [scraper |-> [s EXCEPT !.file_path = w.ret], ret |-> w.ret, raised |-> NoneVal,
     stages |-> <<"write", "fetch">>, wrote |-> w.wrote, dialogs |-> w.dialogs + 1]

Scraper_scrape(s, u, f, dir, served, io_ok) ==
    IF scrapers_throw_if(u) \/ scrapers_throw_if(f)
    THEN ScrapeHandled(s, <<>>)
    ELSE LET fetched == Fetcher_fetch(u, served) IN
         IF IsExc(fetched)
         THEN ScrapeHandled(s, <<"fetch">>)
         ELSE LET s1 == [s EXCEPT !.raw_html = fetched] IN
              IF fetched = NoneVal \/ ~Truthy(fetched.v)
              THEN ScrapeStopped(s1, <<"fetch">>)
              ELSE LET parsed == Parser_parse(fetched.v)
                       s2 == [s1 EXCEPT !.parsed_text = parsed]
                   IN  IF parsed = NoneVal \/ ~Truthy(parsed.v)
                       THEN ScrapeStopped(s2, <<"fetch", "parse">>)
                       ELSE LET w == Writer_write(parsed, f, dir, io_ok) IN
                            [scraper |-> [s2 EXCEPT !.file_path = w.ret],
                             ret |-> w.ret, raised |-> NoneVal,
                             stages |-> <<"fetch", "parse", "write">>,
                             wrote |-> w.wrote, dialogs |-> w.dialogs]

(***************************************************************************)
(* Inputs of the pipeline model: the arguments, what the url serves (None  *)
(* for a host that does not answer) and whether the disk takes the file.   *)
(***************************************************************************)
FileNames == {<<>>, <<"page">>}

Directories == {<<"output">>, <<"out">>}

Served == {NoneVal, Some(<<>>), Some(<<"<p>", "h", "i", "</p>">>)}

InitScrape ==
    /\ scraper = [raw_html |-> NoneVal, parsed_text |-> NoneVal, file_path |-> NoneVal]
    /\ scr_args = NoneVal
    /\ scr_ret = NoneVal
    /\ scr_raised = NoneVal
    /\ scr_stages = <<>>
    /\ scr_wrote = NoneVal
    /\ scr_dialogs = 0
    /\ scr_calls = 0

\* facades.py: Soupy.save_as_markdown( u, f, dir )
SaveAsMarkdown(u, f, dir, served, io_ok) ==
    /\ scr_calls < MaxCalls
    /\ scr_calls' = scr_calls + 1
    /\ scr_args' = [url |-> u, filename |-> f, output_dir |-> dir, served |-> served,
                    io_ok |-> io_ok]
    /\ LET o == Scraper_scrape(scraper, u, f, dir, served, io_ok) IN
       /\ scraper' = o.scraper
       /\ scr_ret' = o.ret
       /\ scr_raised' = o.raised
       /\ scr_stages' = o.stages
       /\ scr_wrote' = o.wrote
       /\ scr_dialogs' = o.dialogs
    /\ UNCHANGED <<fetchVars, runVars, partVars, resultVars>>

NextScrape ==
    \E u \in Urls, f \in FileNames, dir \in Directories, served \in Served,
       io_ok \in BOOLEAN : SaveAsMarkdown(u, f, dir, served, io_ok)

NextFetch ==
    \/ \E u \in Urls, t \in Times, sd \in BOOLEAN : FetchCall(u, t, sd)
    \/ \E payload \in Payloads : TryCrawl4ai(payload)
    \/ \E resp \in Responses : TryRequests(resp)
    \/ \E r \in Renders : TryPlaywright(r)
    \/ RaiseExhausted

\* no runner in use
RunIdle ==
    /\ converters = <<>>
    /\ extractors = <<>>
    /\ NoLibrary
    /\ InitRun

\* no strategy object in use on its own, no Result built
PartsIdle ==
    /\ InitParts
    /\ CompositeOver(<<>>)
    /\ InitResult
    /\ heap = <<<<>>>>
    /\ InitScrape

\* no fetcher in use
FetchIdle ==
    /\ InitFetch
    /\ crawl4ai = FALSE
    /\ use_playwright = FALSE
    /\ supplied = NoneVal

\* one WebCrawler, any configuration
InitCrawler ==
    /\ InitFetch
    /\ RunIdle
    /\ PartsIdle

Spec == InitCrawler /\ [][NextFetch]_vars

NextConvert ==
    \/ \E h \in MarkupInputs : ConvertCall(h)
    \/ ConvertStep
    \/ ConvertExhausted

NextExtract ==
    \/ \E h \in MarkupInputs : ExtractCall(h)
    \/ ExtractStep
    \/ ExtractExhausted

\* both runners over the same chain of arbitrary strategy objects
InitChain ==
    /\ converters \in Chains(StubKinds)
    /\ extractors = converters
    /\ NoLibrary
    /\ InitRun
    /\ FetchIdle
    /\ PartsIdle

SpecRun == InitChain /\ [][NextConvert \/ NextExtract]_vars

\* a CompositeMarkdownConverter over the two converters of converters.py
InitConverters ==
    /\ converters \in Chains(RealConverters)
    /\ extractors = <<>>
    /\ has_html2text \in BOOLEAN
    /\ html2text \in [Documents -> Html2TextOutputs]
    /\ ~has_html2text => html2text = [d \in Documents |-> <<"\n">>]
    /\ InitRun
    /\ FetchIdle
    /\ PartsIdle

SpecConvert == InitConverters /\ [][NextConvert]_vars

\* the strategy objects used on their own
InitStrategies ==
    /\ InitParts
    /\ CompositeOver(<<>>)
    /\ InitResult
    /\ heap = <<<<>>>>
    /\ InitScrape
    /\ FetchIdle
    /\ RunIdle

SpecParts == InitStrategies /\ [][NextParts]_vars

\* a caller that builds Result objects and writes them
InitCaller ==
    /\ InitResult
    /\ InitParts
    /\ CompositeOver(<<>>)
    /\ InitScrape
    /\ FetchIdle
    /\ RunIdle

SpecResult == InitCaller /\ [][NextResult]_vars

\* one CompositeMarkdownConverter of parsers.py over any chain
InitParsers ==
    /\ InitParts
    /\ \E chain \in Chains(ParsersKinds) : CompositeOver(chain)
    /\ InitResult
    /\ heap = <<<<>>>>
    /\ InitScrape
    /\ FetchIdle
    /\ converters = <<>>
    /\ extractors = <<>>
    /\ has_html2text \in BOOLEAN
    /\ html2text \in [Documents -> Html2TextOutputs]
    /\ ~has_html2text => html2text = [d \in Documents |-> <<"\n">>]
    /\ InitRun

SpecParsers == InitParsers /\ [][NextParsers]_vars

\* one Soupy facade
InitFacade ==
    /\ InitScrape
    /\ InitParts
    /\ CompositeOver(<<>>)
    /\ InitResult
    /\ heap = <<<<>>>>
    /\ FetchIdle
    /\ RunIdle

SpecScrape == InitFacade /\ [][NextScrape]_vars

(***************************************************************************)
(* Properties of WebCrawler.fetch.                                         *)
(***************************************************************************)
FetchDone == pc = "done"

RaisedIs(e) == IsExc(raised) /\ raised.exc = e

\* C1: for a usable URL, when a configured strategy obtained content, fetch
\* returns a Result with a non-empty url and the status that strategy
\* reported; it does not raise.
C1_SuccessReturnsResult ==
    (FetchDone /\ Strip(url) # <<>> /\ reported # <<>>) =>
        /\ IsResult(returned)
        /\ returned.url # <<>>
        /\ returned.status_code = reported[1].status

\* C2: fetch raises its acquisition error only when every configured
\* strategy was attempted in the call and none of them succeeded.
C2_RaisesOnlyWhenAllFailed ==
    (FetchDone /\ RaisedIs("RuntimeError")) =>
        /\ attempted = Configured
        /\ reported = <<>>

\* C3: the strategies are attempted in priority order, each only after the
\* ones before it were attempted, and none is attempted after a strategy
\* succeeded.
C3_PriorityOrderStopsAtSuccess ==
    /\ Len(attempted) <= Len(Configured)
    /\ attempted = SubSeq(Configured, 1, Len(attempted))
    /\ \A i \in 1..Len(reported) :
           reported[i].strategy = attempted[Len(attempted)]

\* C4: an empty or whitespace-only url fails at once with the
\* invalid-argument error, and no strategy is attempted: no crawl4ai call,
\* no HTTP request, no browser launch.
C4_BlankUrlFailsFast ==
    (calls > 0 /\ Strip(url) = <<>>) =>
        /\ FetchDone
        /\ RaisedIs("ValueError")
        /\ attempted = <<>>
        /\ launched = 0

RunDone == run_pc = "done"

\* the call that finished last
LastOp == run_op

LastChain == IF LastOp = "convert" THEN converters ELSE extractors

\* the last call got past the guard on html
GuardPassed ==
    IF LastOp = "convert" THEN html # NoneVal /\ ~IsBlankMarkup(html)
    ELSE html # NoneVal /\ html.nodes # <<>>

\* what the strategy at position i of the chain does when invoked
Behaviour(i) == StubOutcome(LastChain[i])

Raises(i) == IsExc(Behaviour(i))

NonEmpty(i) ==
    ~Raises(i) /\ Behaviour(i).ret # NoneVal /\ Len(Behaviour(i).ret.v) > 0

NonBlank(i) ==
    NonEmpty(i) /\ \E j \in 1..Len(Behaviour(i).ret.v) : Behaviour(i).ret.v[j] \notin WS

UpTo(k) == [i \in 1..k |-> i]

C7_NeverBlankResult ==
    (RunDone /\ run_returned # NoneVal /\ run_returned.v # <<>>) =>
        \E j \in 1..Len(run_returned.v) : run_returned.v[j] \notin WS

Failed(i) == Raises(i) \/ ~NonEmpty(i)

\* C8: a strategy that raises is treated like one that returns empty: for
\* every invoked strategy that raised or returned nothing, the next
\* strategy of the list is invoked and, in the runner that keeps
\* diagnostics, a diagnostic is recorded.
C8_RaisingLikeEmpty ==
    (RunDone /\ GuardPassed) =>
        /\ \A k \in 1..Len(invoked) :
               (Failed(invoked[k]) /\ k < Len(LastChain)) => Len(invoked) > k
        /\ LastOp = "convert" =>
               Len(errors) = Cardinality({k \in 1..Len(invoked) : Failed(invoked[k])})

\* C9: when no strategy produced a result the runner raises an
\* all-strategies-failed error to its caller with one diagnostic per
\* attempted strategy, in attempt order; when a strategy won, the
\* diagnostics are those of the strategies attempted before it.
C9_AllFailedRaises ==
    (RunDone /\ GuardPassed /\ LastOp = "convert" /\ converters # <<>>) =>
        IF TruthyStr(run_returned)
        THEN /\ Len(errors) = Len(invoked) - 1
             /\ \A k \in 1..Len(errors) : errors[k].name = converters[k]
        ELSE /\ IsExc(run_raised)
             /\ run_raised.exc = "RuntimeError"
             /\ Len(run_raised.entries) = Len(invoked)
             /\ \A k \in 1..Len(invoked) :
                    run_raised.entries[k].name = converters[invoked[k]]

(***************************************************************************)
(* Properties of CompositeMarkdownConverter over the real converters.      *)
(***************************************************************************)
\* C10: two convert calls on one instance with the same markup give the
\* same output, whatever calls came before or between them.
C10_ConvertIdempotent ==
    \A a, b \in log :
        (a.op = b.op /\ a.html = b.html) => a.out = b.out

\* three calls over two documents, so one document was converted twice,
\* the last call being answered by SoupFallbackConverter
C10_Witness ==
    /\ RunDone
    /\ run_calls = 3
    /\ Cardinality(log) = 2
    /\ \A e \in log : e.html \in Documents /\ TruthyStr(e.out)
    /\ invoked # <<>>
    /\ converters[invoked[Len(invoked)]] = "SoupFallbackConverter"
    /\ members[invoked[Len(invoked)]].blocks # <<>>

(***************************************************************************)
(* Properties of the strategy objects used on their own.                   *)
(***************************************************************************)
SoupCalled ==
    part_op \in {"converters.SoupFallbackConverter", "parsers.SoupFallbackConverter"}

\* the elements the specification names as not being content
NonContent == {"script", "style", "noscript", "svg", "canvas", "iframe", "form"}

\* the strings that lie inside a non-content subtree
RECURSIVE NoiseStrings(_)
NoiseStrings(nodes) ==
    IF nodes = <<>> THEN <<>>
    ELSE LET n == Head(nodes) IN
         (IF IsText(n) THEN <<>>
          ELSE IF n.name \in NonContent THEN Strings(n.children)
          ELSE NoiseStrings(n.children))
             \o NoiseStrings(Tail(nodes))

NoiseTokens(nodes) ==
    LET ss == NoiseStrings(nodes) IN
    UNION {{ss[i][j] : j \in 1..Len(ss[i])} : i \in 1..Len(ss)} \ WS

\* the recognized elements of the content, in document order
Recognized(nodes) == find_all(Decompose(nodes, NonContent), BlockNames)

\* C11: SoupFallbackConverter.convert emits one block per recognized
\* element with non-empty text, in document order, a heading of level n
\* behind n '#' and a space, a list item behind '- ', each non-blank line
\* of a blockquote behind '> ', the other blocks plain, joined by one blank
\* line; <h2>Title</h2><p>Body text</p><ul><li>One</li></ul> gives
\* "## Title\n\nBody text\n\n- One".
C11_OneBlockPerElement ==
    (SoupCalled /\ part_html \in PartDocuments) =>
        LET expected == BlocksOf(Recognized(part_html.nodes)) IN
        /\ expected # <<>> => part_out = Some(Join(expected, <<"\n", "\n">>))
        /\ part_html = DocTitle =>
               part_out = Some(<<"#", "#", " ", "Title", "\n", "\n",
                                 "Body", " ", "text", "\n", "\n", "-", " ", "One">>)

\* C12: no text from inside a script, style, noscript, svg, canvas, iframe
\* or form subtree is in the output of SoupFallbackConverter.convert
\* (converters.py), and markup holding only a script element gives "".
C12_NoNoiseText ==
    (part_op = "converters.SoupFallbackConverter" /\ part_html \in PartDocuments) =>
        /\ part_out # NoneVal
        /\ \A i \in 1..Len(part_out.v) :
               part_out.v[i] \notin NoiseTokens(part_html.nodes)
        /\ part_html = DocScript => part_out = Some(<<>>)

\* a document with a paragraph inside a form beside a blockquote
C12_Witness ==
    /\ part_op = "converters.SoupFallbackConverter"
    /\ part_html = DocQuote
    /\ NoiseTokens(part_html.nodes) = {"f"}
    /\ part_out = Some(<<">", " ", "q", "\n", ">", " ", "r">>)

\* the call got past the guard of the extractor: html is a non-empty str
ExtractorGuardPassed == part_html # NoneVal /\ part_html.nodes # <<>>

\* the visible text of an element or of a document
VisibleText(nodes) == get_text(nodes, <<" ">>)

RECURSIVE Concat(_)
Concat(parts) == IF parts = <<>> THEN <<>> ELSE Head(parts) \o Concat(Tail(parts))

\* C13: for a non-empty markup str, HeuristicExtractor.extract returns the
\* visible texts of all p elements, in document order, with nothing
\* between them (<p>A</p><p>B</p> gives "AB"), and "" when there is no p
\* element.
C13_ParagraphsJoinedDirectly ==
    (part_op = "HeuristicExtractor" /\ ExtractorGuardPassed) =>
        LET ps == find_all(part_html.nodes, {"p"}) IN
        /\ part_dialogs = 0
        /\ part_out = Some(Concat([i \in 1..Len(ps) |-> VisibleText(ps[i].children)]))
        /\ ps = <<>> => part_out = Some(<<>>)
        /\ part_html = DocPara => part_out = Some(<<"A", "B">>)

C13_Witness ==
    /\ part_op = "HeuristicExtractor"
    /\ part_html = DocPara
    /\ part_out = Some(<<"A", "B">>)
    /\ part_dialogs = 0

\* C14: for a non-empty markup str, ReadabilityExtractor.extract returns
\* the visible text of the first article element when there is one, and
\* otherwise the visible text of the whole document; a missing article
\* element gives no exception, no dialog and no None.
C14_ArticleOrWholeDocument ==
    (part_op = "ReadabilityExtractor" /\ ExtractorGuardPassed) =>
        LET articles == find_all(part_html.nodes, {"article"}) IN
        /\ part_dialogs = 0
        /\ part_out # NoneVal
        /\ part_out = Some(IF articles # <<>> THEN VisibleText(articles[1].children)
                            ELSE VisibleText(part_html.nodes))

\* a document without an article element
C14_Witness ==
    /\ part_op = "ReadabilityExtractor"
    /\ part_html = DocPara
    /\ find_all(part_html.nodes, {"article"}) = <<>>
    /\ part_out = Some(<<"A", " ", "B">>)
    /\ part_dialogs = 0

(***************************************************************************)
(* Properties of CompositeMarkdownConverter when html2text is missing.     *)
(***************************************************************************)
\* C15: with html2text absent, the chain Html2TextConverter,
\* SoupFallbackConverter is not aborted: the runner records the failure of
\* Html2TextConverter as a diagnostic, goes on, and returns what
\* SoupFallbackConverter gives (documents for which that is not empty).
C15_MissingLibraryRecorded ==
    (/\ RunDone
     /\ run_op = "convert"
     /\ converters = <<"Html2TextConverter", "SoupFallbackConverter">>
     /\ ~has_html2text
     /\ html \in Documents
     /\ TruthyStr(SoupFallbackConverter_convert(NewMember, html).out.ret)) =>
        /\ invoked = <<1, 2>>
        /\ run_returned = SoupFallbackConverter_convert(NewMember, html).out.ret
        /\ Len(errors) = 1
        /\ errors[1].name = "Html2TextConverter"

(***************************************************************************)
(* Properties of MarkdownWriter.write and of Result.                       *)
(***************************************************************************)
\* the last write put a file in place
WriteDone == written # NoneVal

StatusText(sc) ==
    CASE sc = 0 -> <<"0">>
      [] sc = 200 -> <<"2", "0", "0">>

\* C16: the file written for a Result is "---\n", "source_url: <url>\n",
\* "status_code: <status>\n", "---\n", a blank line, then the text; for
\* url http://x, status 200 and text hi it is exactly
\* "---\nsource_url: http://x\nstatus_code: 200\n---\n\nhi\n".
C16_FrontMatterThenBody ==
    WriteDone =>
        LET r == writer.result
            front == <<"-", "-", "-", "\n">>
                         \o <<"source_url", ":", " ">> \o r.url \o <<"\n">>
                         \o <<"status_code", ":", " ">> \o StatusText(r.status_code)
                         \o <<"\n">> \o <<"-", "-", "-", "\n">>
        IN  /\ file # NoneVal
            /\ file.v \in {front \o <<"\n">> \o r.text,
                            front \o <<"\n">> \o r.text \o <<"\n">>}
            /\ (r.url = HttpX /\ r.status_code = 200 /\ r.text = <<"h", "i">>) =>
                   file.v = <<"-", "-", "-", "\n",
                              "source_url", ":", " ",
                              "h", "t", "t", "p", ":", "/", "/", "x", "\n",
                              "status_code", ":", " ", "2", "0", "0", "\n",
                              "-", "-", "-", "\n", "\n", "h", "i", "\n">>

C16_Witness ==
    /\ WriteDone
    /\ writer.result.url = HttpX
    /\ writer.result.status_code = 200
    /\ writer.result.text = <<"h", "i">>
    /\ Len(file.v) = 31

\* C17: whatever the text of the Result, the body written after the front
\* matter ends in exactly one newline.
C17_BodyEndsInOneNewline ==
    WriteDone =>
        LET n == Len(FrontMatter(writer.result))
            b == SubSeq(file.v, n + 1, Len(file.v))
        IN  /\ b # <<>>
            /\ b[Len(b)] = "\n"
            /\ Len(b) > 1 => b[Len(b) - 1] # "\n"

\* C20: a Result that exists has a url with a character other than white
\* space, and its fields are what they were after construction, whatever
\* was done since to the dict given to the constructor or to a dict
\* returned by to_dict.
C20_ResultImmutable ==
    res # NoneVal =>
        /\ Strip(res.url) # <<>>
        /\ FieldsOf(res, heap) = born

\* the caller changed the dict after giving it, non-empty, to the constructor
C20_Witness ==
    /\ res # NoneVal
    /\ born.headers # <<>>
    /\ heap[given] # born.headers
    /\ res.headers # given

(***************************************************************************)
(* Properties of the request headers and of the browser.                   *)
(***************************************************************************)
\* the values a dict holds for the header User-Agent, a header name being
\* the same in any case
UserAgents(d) ==
    IF d = NoneVal THEN {}
    ELSE {d.items[i].v : i \in {j \in 1..Len(d.items) :
                                   Lower(d.items[j].k) = "user-agent"}}

\* C18: a request sent by WebFetcher.fetch has a User-Agent header: the
\* default one when the caller gave none at construction, the caller's own
\* when they gave one; and the dict the caller gave is as they gave it.
C18_UserAgentSent ==
    wire # NoneVal =>
        /\ UserAgents(wire) # {}
        /\ UserAgents(supplied) = {} => UserAgents(wire) = {Agents}
        /\ UserAgents(supplied) # {} => UserAgents(wire) = UserAgents(supplied)
        /\ caller_headers = supplied

\* C19: a browser launched by render_with_playwright is released on every
\* path out of it: none is open between the steps of fetch nor after it.
C19_BrowserReleased ==
    /\ browser # "open"
    /\ launched > 0 => browser \in {"closed", "stopped"}

\* a navigation, wait or content error after the launch
C19_Witness ==
    /\ FetchDone
    /\ launched = 1
    /\ browser = "stopped"
    /\ RaisedIs("RuntimeError")

(***************************************************************************)
(* Properties of Soupy.save_as_markdown and Scraper.scrape.                *)
(***************************************************************************)
ScrapeDone == scr_args # NoneVal

IsPrefixOf(a, b) == Len(a) <= Len(b) /\ a = SubSeq(b, 1, Len(a))

InStages(name) == \E i \in 1..Len(scr_stages) : scr_stages[i] = name

NonEmptyStr(v) == v # NoneVal /\ "v" \in DOMAIN v /\ Truthy(v.v)

AllCanSucceed ==
    /\ Truthy(scr_args.url)
    /\ Truthy(scr_args.filename)
    /\ NonEmptyStr(scr_args.served)
    /\ Parser_parse(scr_args.served.v) # NoneVal
    /\ scr_args.io_ok

Attempts(name) == Cardinality({i \in 1..Len(attempted) : attempted[i] = name})

\* C23: at every point of a WebCrawler.fetch call each strategy has been
\* attempted at most once, and with use_playwright False Playwright has not
\* been attempted and no browser has been launched.
C23_EachStrategyAtMostOnce ==
    /\ \A i \in 1..Len(Strategies) : Attempts(Strategies[i]) <= 1
    /\ ~use_playwright => Attempts("playwright") = 0 /\ launched = 0

\* C23 witness: a finished call on a crawler without Playwright in which
\* crawl4ai and requests both failed
C23_Witness ==
    /\ pc = "done"
    /\ ~use_playwright
    /\ attempted = <<"crawl4ai", "requests">>
    /\ IsExc(raised)

\* the requests strategy of the call in progress failed
RequestsFailed ==
    /\ Attempts("requests") = 1
    /\ pc \in {"playwright", "exhausted", "done"}
    /\ returned = NoneVal

NonSuccess(resp) ==
    "status_code" \in DOMAIN resp /\ (resp.status_code < 200 \/ resp.status_code >= 300)

C25_NoStateAcrossCalls ==
    part_op = "parsers.SoupFallbackConverter" =>
        part_out = parsers_SoupFallbackConverter_convert(NewMember, part_html).out.ret

\* a converter succeeded: it did not raise and it returned Markdown
Succeeded(out) == ~IsExc(out) /\ out.ret # NoneVal

\* C26: CompositeMarkdownConverter.convert of parsers.py invokes the
\* converters in chain order; every converter before the last one invoked
\* failed (it raised, or it caught its own error and returned None); the
\* call stops short of the end of the chain only at a converter that
\* succeeded; and the value returned is the Markdown of that converter.
C26_FirstSuccessWins ==
    part_op = "parsers.CompositeMarkdownConverter" =>
        LET n == Len(pars_trace) IN
        /\ \A i \in 1..n : pars_trace[i].position = i
        /\ \A i \in 1..(n - 1) : ~Succeeded(pars_trace[i].out)
        /\ n < Len(pars_converters) => n >= 1 /\ Succeeded(pars_trace[n].out)
        /\ (n >= 1 /\ Succeeded(pars_trace[n].out)) => part_out = pars_trace[n].out.ret

(***************************************************************************)
(* Dialogs, the stored result and the crawl4ai strategy of                 *)
(* WebCrawler.fetch.                                                       *)
(***************************************************************************)
\* C27: a WebCrawler.fetch call made with show_dialog = False shows no
\* ErrorDialog, at any point of the call and whatever the strategies do.
C27_NoDialogWhenDisabled ==
    (calls > 0 /\ ~show_dialog) => dialogs = 0

\* C29: the stored result changes only on success: a step that ends a
\* call by returning a Result leaves self.result equal to that Result, and
\* every other step of a call, its raising included, leaves self.result as
\* it was.
C29_ResultChangesOnlyOnSuccess ==
    [][IF pc' = "done" /\ IsResult(returned')
       THEN result' = returned'
       ELSE result' = result]_vars

\* C29 witness: a call that tried a strategy and raised, its stored result
\* being what it was before the call
C29_Witness ==
    /\ pc = "done"
    /\ calls >= 2
    /\ attempted # <<>>
    /\ IsExc(raised)
    /\ result = NoneVal

\* the crawl4ai strategy of the call was attempted and obtained no content
Crawl4aiUnusable ==
    /\ Attempts("crawl4ai") = 1
    /\ \A i \in 1..Len(reported) : reported[i].strategy # "crawl4ai"

\* C30: an unusable crawl4ai response (an exception, a payload that is not
\* a non-empty dict, one without 'content', one with empty content) is not
\* returned as a success, and the call goes on to the requests strategy.
C30_UnusableCrawl4aiFallsBack ==
    Crawl4aiUnusable =>
        /\ ~IsResult(returned)
        /\ pc = "requests" \/ (Len(attempted) >= 2 /\ attempted[2] = "requests")

\* C30 witness: crawl4ai handed back a payload with empty content,
\* html_to_text rejected it with its dialog, and the call stands before
\* the requests strategy
C30_Witness ==
    /\ pc = "requests"
    /\ attempted = <<"crawl4ai">>
    /\ reported = <<>>
    /\ show_dialog
    /\ dialogs = 1

(***************************************************************************)
(* The diagnostics of the CompositeMarkdownConverter of converters.py.     *)
(***************************************************************************)
\* the entries one call appends: one for each converter it invoked that
\* raised, in the order of invocation
RECURSIVE RaisedEntries(_, _, _)
RaisedEntries(inv, chain, h) ==
    IF inv = <<>> THEN <<>>
    ELSE LET out == ConverterOutcome(chain[Head(inv)], NewMember, h).out IN
         (IF IsExc(out) THEN <<[name |-> chain[Head(inv)], error |-> out.exc]>>
          ELSE <<>>)
             \o RaisedEntries(Tail(inv), chain, h)

\* C28 as stated: every convert call starts with empty diagnostics: at any
\* point after the first call self.errors holds the entries of the most
\* recent call and no other.
C28_ErrorsOfLastCallOnly ==
    (run_calls > 0 /\ run_op = "convert") =>
        errors = RaisedEntries(invoked, converters, html)

\* C28 as amended: a convert call whose html passes the guard starts with
\* empty diagnostics, so self.errors holds the entries of that call and no
\* other; a call whose html the guard rejects leaves self.errors as the
\* call found it.
C28_ErrorsOfLastAcceptedCall ==
    [][run_op' = "convert" =>
           IF converters_throw_if(html')
           THEN errors' = errors
           ELSE errors' = RaisedEntries(invoked', converters', html')]_vars

\* C28 witness: two accepted convert calls on a chain whose first converter
\* raises have finished, and self.errors holds the one entry of the second
C28_Witness ==
    /\ run_pc = "done"
    /\ run_op = "convert"
    /\ run_calls = 2
    /\ Cardinality(log) = 2
    /\ \A e \in log : e.op = "convert" /\ ~converters_throw_if(e.html)
    /\ ~converters_throw_if(html)
    /\ converters # <<>>
    /\ converters[1] = "Raising"
    /\ Len(errors) = 1

====
